---- MODULE Spec2Model ----
(***************************************************************************)
(* A model of link-checker.py: the per-page link verifier (check_links),   *)
(* the thread pool of main that runs it over the page list, the fallback   *)
(* crawler (crawl_site), the sitemap resolver (parse_sitemap), the sitemap *)
(* locator (find_sitemap) and the order in which main runs them.           *)
(*                                                                         *)
(* Strings are sequences of tokens: a URL "http://a.test/p" is             *)
(* <<"http:", "//", "a.test", "/p">>.  startswith, the substring test and  *)
(* urljoin/urlparse work on these sequences.                               *)
(***************************************************************************)
EXTENDS Integers, Sequences, FiniteSets, TLC

VARIABLES
    \* ---- verification stage (main's pool block and check_links) ----
    pages,          \* the page list handed to executor.map: Seq of [url, tags]
    mpc,            \* position of main: "discover" | "pool" | "summary"
    collected,      \* how many results main's for-loop has consumed
    all_bad_links,  \* main's aggregated list
    tpc,            \* per task (one per page): position of its check_links call
    ti,             \* per task: number of tags the for-loop has taken
    full_link,      \* per task: the link being checked
    bad_links,      \* per task: check_links' local list
    checked,        \* per task: history of the HEAD checks made and their outcomes
    fetched,        \* per task: history of the answer to the page fetch
    calls,          \* per task: history of how often check_links was entered
    inflight,       \* the outbound requests issued and not yet answered
    net,            \* the answers the network can give in this run
    trail,          \* per task: history of the call's delays and requests, in order
    now,            \* per task: the time.time() the call's thread reads
    start,          \* per task: check_links' start stamp
    overtaken,      \* history: some call finished before the call of an earlier page
    \* ---- fallback crawler (crawl_site) ----
    site,           \* the static site: URL -> [kind, links]
    start_url,
    max_pages,
    cpc,            \* position of crawl_site: "idle" | "loop" | "fetch" | "done"
    visited,
    to_visit,
    found_pages,
    url,            \* the URL popped from to_visit
    fetchlog,       \* history of the fetches: [url, found] (found pages at that time)
    \* ---- sitemap resolver (parse_sitemap) ----
    docs,           \* the static sitemap documents: URL -> failure or XML tree
    spc,            \* position of the outermost parse_sitemap: "idle" | "run" | "done"
    stack,          \* the frames of the nested parse_sitemap calls, innermost last
    sm_pages,       \* what the outermost call returned
    \* ---- sitemap locator (find_sitemap) and the main thread ----
    site_url,       \* main's url, the command line argument
    probes,         \* the static answers to the candidate locations, in order
    robots,         \* the static answer to /robots.txt
    fpc,            \* position of find_sitemap: "idle" | "probe" | "robots" | "done"
    ci,             \* index of the candidate the for-loop is at
    sitemap_url,    \* what find_sitemap returned
    mlog            \* history of the main thread: its delays and outbound requests

vvars == <<pages, mpc, collected, all_bad_links, tpc, ti, full_link, bad_links,
           checked, fetched, calls, inflight, net, trail, now, start, overtaken>>

hvars == <<trail, now, start, overtaken>>

cvars == <<site, start_url, max_pages, cpc, visited, to_visit, found_pages, url,
           fetchlog>>

svars == <<docs, spc, stack, sm_pages>>

lvars == <<site_url, probes, robots, fpc, ci, sitemap_url>>

vars == <<vvars, cvars, svars, lvars, mlog>>

----------------------------------------------------------------------------
(* Program constants *)

REQUEST_DELAY == 1
SlowThreshold == 10
max_workers == 5
ERR == -1           \* the 'ERR' status of a failed request
NoTime == -2        \* elapsed = None
DefaultMaxPages == 100

(* Bounds of the model *)
MaxTags == 2        \* tags per page in the single-page specification
MaxPoolPages == 2   \* length of the page list in the pool specification
MaxLoadPages == 6   \* length of the page list in the load specification
MaxCeiling == 3     \* largest max_pages given to crawl_site
MaxDepth == 5       \* deepest nesting of parse_sitemap calls the model follows
MaxDist == 6        \* longest anchor distance the crawler properties look at
MaxLines == 2       \* lines of a robots.txt

----------------------------------------------------------------------------
(* Strings as token sequences *)

SchemeTokens == {"http:", "https:", "mailto:"}
HostTokens == {"a.test", "b.test"}
RootedSegs == {"/p", "/q", "/d", "/xmlrpc.php"}
RelSegs == {"r"}

Rooted(seg) == IF seg = "r" THEN "/r" ELSE seg

StartsWith(s, prefix) ==
    /\ Len(s) >= Len(prefix)
    /\ \A i \in 1..Len(prefix) : s[i] = prefix[i]

Contains(s, tok) == \E i \in 1..Len(s) : s[i] = tok

Drop(s, n) == IF n >= Len(s) THEN <<>> ELSE SubSeq(s, n + 1, Len(s))

Front(s) == IF Len(s) = 0 THEN <<>> ELSE SubSeq(s, 1, Len(s) - 1)

(* urllib.parse.urlparse: scheme, netloc, path *)
urlparse(s) ==
    LET scheme == IF Len(s) > 0 /\ s[1] \in SchemeTokens THEN s[1] ELSE ""
        r1 == IF scheme = "" THEN s ELSE Tail(s)
        hasAuth == Len(r1) > 0 /\ r1[1] = "//"
        netloc == IF hasAuth /\ Len(r1) > 1 /\ r1[2] \in HostTokens THEN r1[2] ELSE ""
        r2 == IF ~hasAuth THEN r1
              ELSE IF netloc = "" THEN Tail(r1) ELSE Drop(r1, 2)
    IN  [scheme |-> scheme, netloc |-> netloc, path |-> r2]

urlunparse(u) ==
    (IF u.scheme = "" THEN <<>> ELSE <<u.scheme>>)
    \o (IF u.netloc = "" THEN <<>> ELSE <<"//", u.netloc>>)
    \o u.path

(* urllib.parse.urljoin(base, url) *)
urljoin(base, ref) ==
    IF Len(ref) = 0 THEN base
    ELSE IF Len(base) = 0 THEN ref
    ELSE
      LET b == urlparse(base)
          u == urlparse(ref)
          scheme == IF u.scheme = "" THEN b.scheme ELSE u.scheme
      IN  IF scheme # b.scheme \/ scheme \notin {"http:", "https:"}
          THEN ref
          ELSE IF u.netloc # ""
          THEN urlunparse([scheme |-> scheme, netloc |-> u.netloc, path |-> u.path])
          ELSE IF Len(u.path) = 0
          THEN urlunparse([scheme |-> scheme, netloc |-> b.netloc, path |-> b.path])
          ELSE IF u.path[1] \in RelSegs
          THEN urlunparse([scheme |-> scheme, netloc |-> b.netloc,
                           path |-> Front(b.path) \o <<Rooted(u.path[1])>>
                                    \o Tail(u.path)])
          ELSE urlunparse([scheme |-> scheme, netloc |-> b.netloc, path |-> u.path])

----------------------------------------------------------------------------
(* The markup of a page: tags with the attributes check_links reads.       *)
(* An absent or empty attribute is the empty sequence.                     *)

NoAttr == <<>>

Tag(n, r, h, s) == [name |-> n, rel |-> r, href |-> h, src |-> s]

HttpA == <<"http:", "//", "a.test", "/p">>
HttpsB == <<"https:", "//", "b.test", "/q">>
HttpNoHost == <<"http:", "//", "/q">>
RelLink == <<"/p">>
MailLink == <<"mailto:", "r">>
SchemeRel == <<"//", "b.test", "/p">>
XmlRpc == <<"https:", "//", "a.test", "/xmlrpc.php">>

TagCatalog ==
    { Tag("a", <<>>, HttpA, NoAttr),
      Tag("img", <<>>, NoAttr, HttpsB),
      Tag("link", <<"stylesheet">>, HttpsB, NoAttr),
      Tag("link", <<"preconnect">>, HttpsB, NoAttr),
      Tag("link", <<"stylesheet", "dns-prefetch">>, HttpA, NoAttr),
      Tag("a", <<"preconnect">>, HttpA, NoAttr),
      Tag("a", <<>>, RelLink, NoAttr),
      Tag("a", <<>>, MailLink, HttpA),
      Tag("img", <<>>, HttpA, NoAttr),
      Tag("script", <<>>, NoAttr, XmlRpc),
      Tag("script", <<>>, NoAttr, SchemeRel),
      Tag("script", <<>>, NoAttr, HttpNoHost) }

TagSeqs(n) == UNION {[1..k -> TagCatalog] : k \in 0..n}

PageUrls == { <<"http:", "//", "a.test", "/d", "/p">>,
              <<"https:", "//", "a.test">> }

(* lines 78-84: <link rel="preconnect"> and <link rel="dns-prefetch"> *)
IsHint(tag) ==
    /\ tag.name = "link"
    /\ Len(tag.rel) > 0
    /\ (Contains(tag.rel, "preconnect") \/ Contains(tag.rel, "dns-prefetch"))

(* lines 85-86 *)
LinkAttr(tag) == IF tag.name \in {"a", "link"} THEN tag.href ELSE tag.src

(* IsCheckable without the xmlrpc.php exclusion of lines 91-93 *)
IsCheckableNoXmlrpcTest(tag) ==
    /\ ~IsHint(tag)
    /\ Len(LinkAttr(tag)) > 0
    /\ (StartsWith(LinkAttr(tag), <<"http:", "//">>)
        \/ StartsWith(LinkAttr(tag), <<"https:", "//">>))

(* lines 87-93: the tag's link goes on to be checked *)
IsCheckable(tag) ==
    /\ ~IsHint(tag)
    /\ Len(LinkAttr(tag)) > 0
    /\ (StartsWith(LinkAttr(tag), <<"http:", "//">>)
        \/ StartsWith(LinkAttr(tag), <<"https:", "//">>))
    /\ ~Contains(LinkAttr(tag), "/xmlrpc.php")

(* IsBad with >= for > *)
IsBadSlowInclusive(code, elapsed) ==
    code # 200 \/ (elapsed # NoTime /\ elapsed >= SlowThreshold)

(* line 108 *)
IsBad(code, elapsed) == code # 200 \/ (elapsed # NoTime /\ elapsed > SlowThreshold)

(* lines 109-114 *)
Finding(code, page_url, link, elapsed) ==
    [code |-> code, page |-> page_url, broken_link |-> link, response_time |-> elapsed]

(* PageOk without the status test *)
PageOkAnyResponse(o) == o.kind = "resp"

(* line 74: the page itself answered 200 *)
PageOk(o) == o.kind = "resp" /\ o.code = 200

(* AfterHead with SSLError handled like any other RequestException *)
AfterHeadSslReported(bl, page_url, link, o) ==
    LET code == IF o.kind = "resp" THEN o.code ELSE ERR
        elapsed == IF o.kind = "resp" THEN o.elapsed ELSE NoTime
    IN  IF IsBad(code, elapsed)
        THEN Append(bl, Finding(code, page_url, link, elapsed))
        ELSE bl

(* lines 99-117: bad_links after the HEAD check of link answered o *)
AfterHead(bl, page_url, link, o) ==
    IF o.kind = "ssl" THEN bl
    ELSE LET code == IF o.kind = "resp" THEN o.code ELSE ERR
             elapsed == IF o.kind = "resp" THEN o.elapsed ELSE NoTime
         IN  IF IsBad(code, elapsed)
             THEN Append(bl, Finding(code, page_url, link, elapsed))
             ELSE bl

----------------------------------------------------------------------------
(* What the network may answer *)

PageOutcomes == {[kind |-> "resp", code |-> 200], [kind |-> "resp", code |-> 404],
                 [kind |-> "error"]}

HeadOutcomes ==
    {[kind |-> "resp", code |-> c, elapsed |-> e] : c \in {200, 404}, e \in {10, 11}}
      \cup {[kind |-> "ssl"], [kind |-> "error"]}

AnyNet == [page |-> PageOutcomes, head |-> HeadOutcomes]

NotFetched == [kind |-> "none"]

Tasks == 1..Len(pages)

Running == {t \in Tasks : tpc[t] \notin {"queued", "done"}}

----------------------------------------------------------------------------
(* The verification stage *)

InitTasks(ps, nw) ==
    /\ pages = ps
    /\ net = nw
    /\ mpc = "pool"
    /\ collected = 0
    /\ all_bad_links = <<>>
    /\ tpc = [t \in 1..Len(ps) |-> "queued"]
    /\ ti = [t \in 1..Len(ps) |-> 0]
    /\ full_link = [t \in 1..Len(ps) |-> <<>>]
    /\ bad_links = [t \in 1..Len(ps) |-> <<>>]
    /\ checked = [t \in 1..Len(ps) |-> <<>>]
    /\ fetched = [t \in 1..Len(ps) |-> NotFetched]
    /\ calls = [t \in 1..Len(ps) |-> 0]
    /\ inflight = {}
    /\ trail = [t \in 1..Len(ps) |-> <<>>]
    /\ now = [t \in 1..Len(ps) |-> 0]
    /\ start = [t \in 1..Len(ps) |-> 0]
    /\ overtaken = FALSE

(* The verification stage before the page list exists *)
VerifyIdle ==
    /\ pages = <<>>
    /\ net = AnyNet
    /\ mpc = "discover"
    /\ collected = 0
    /\ all_bad_links = <<>>
    /\ tpc = <<>>
    /\ ti = <<>>
    /\ full_link = <<>>
    /\ bad_links = <<>>
    /\ checked = <<>>
    /\ fetched = <<>>
    /\ calls = <<>>
    /\ inflight = {}
    /\ trail = <<>>
    /\ now = <<>>
    /\ start = <<>>
    /\ overtaken = FALSE

(* The crawler before crawl_site is called *)
CrawlIdle ==
    /\ site = <<>>
    /\ start_url = <<>>
    /\ max_pages = 0
    /\ cpc = "idle"
    /\ visited = {}
    /\ to_visit = <<>>
    /\ found_pages = <<>>
    /\ url = <<>>
    /\ fetchlog = <<>>

(* The resolver before parse_sitemap is called *)
SitemapIdle ==
    /\ docs = <<>>
    /\ spc = "idle"
    /\ stack = <<>>
    /\ sm_pages = <<>>

(* An entry of the main thread's history: an outbound request, a delay *)
Request(u) == [op |-> "GET", url |-> u]
Delay == [op |-> "sleep", url |-> <<>>]

(* The locator before find_sitemap is called *)
LocateIdle ==
    /\ site_url = <<>>
    /\ probes = <<>>
    /\ robots = <<>>
    /\ fpc = "idle"
    /\ ci = 0
    /\ sitemap_url = <<>>
    /\ mlog = <<>>

(* The call of page t finishes while the call of an earlier page has not *)
Overtakes(t) == \E s \in 1..(t - 1) : tpc[s] # "done"

(* The time a request takes until its answer is there *)
Took(o) == IF o.kind = "resp" THEN o.elapsed ELSE 0

(* line 100: the answer with the elapsed time check_links measured *)
Timed(o, elapsed) == IF o.kind = "resp" THEN [o EXCEPT !.elapsed = elapsed] ELSE o

(* Start without the limit on the running calls *)
StartUnbounded(t) ==
    /\ mpc = "pool"
    /\ tpc[t] = "queued"
    /\ \A s \in 1..(t - 1) : tpc[s] # "queued"
    /\ tpc' = [tpc EXCEPT ![t] = "sleep_page"]
    /\ calls' = [calls EXCEPT ![t] = @ + 1]
    /\ trail' = [trail EXCEPT ![t] = Append(@, Delay)]
    /\ UNCHANGED <<now, start, overtaken>>
    /\ UNCHANGED <<pages, net, mpc, collected, all_bad_links, ti, full_link,
                   bad_links, checked, fetched, inflight>>
    /\ UNCHANGED <<cvars, svars, lvars, mlog>>

(* lines 173-174: a pool thread takes the next submitted call, in order *)
Start(t) ==
    /\ mpc = "pool"
    /\ tpc[t] = "queued"
    /\ \A s \in 1..(t - 1) : tpc[s] # "queued"
    /\ Cardinality(Running) < max_workers
    /\ tpc' = [tpc EXCEPT ![t] = "sleep_page"]
    /\ calls' = [calls EXCEPT ![t] = @ + 1]
    /\ trail' = [trail EXCEPT ![t] = Append(@, Delay)]
    /\ UNCHANGED <<now, start, overtaken>>
    /\ UNCHANGED <<pages, net, mpc, collected, all_bad_links, ti, full_link,
                   bad_links, checked, fetched, inflight>>
    /\ UNCHANGED <<cvars, svars, lvars, mlog>>

(* lines 72-73: the delay ends and the page is requested *)
PageIssue(t) ==
    /\ tpc[t] = "sleep_page"
    /\ tpc' = [tpc EXCEPT ![t] = "get_page"]
    /\ inflight' = inflight \cup {[task |-> t, method |-> "GET", url |-> pages[t].url]}
    /\ now' = [now EXCEPT ![t] = @ + REQUEST_DELAY]
    /\ trail' = [trail EXCEPT ![t] = Append(@, Request(pages[t].url))]
    /\ UNCHANGED <<start, overtaken>>
    /\ UNCHANGED <<pages, net, mpc, collected, all_bad_links, ti, full_link,
                   bad_links, checked, fetched, calls>>
    /\ UNCHANGED <<cvars, svars, lvars, mlog>>

(* lines 73-76 and 118-120 *)
PageReturn(t, o) ==
    /\ tpc[t] = "get_page"
    /\ inflight' = inflight \ {[task |-> t, method |-> "GET", url |-> pages[t].url]}
    /\ fetched' = [fetched EXCEPT ![t] = o]
    /\ tpc' = [tpc EXCEPT ![t] = IF PageOk(o) THEN "loop" ELSE "done"]
    /\ overtaken' = (overtaken \/ (~PageOk(o) /\ Overtakes(t)))
    /\ UNCHANGED <<trail, now, start>>
    /\ UNCHANGED <<pages, net, mpc, collected, all_bad_links, ti, full_link,
                   bad_links, checked, calls>>
    /\ UNCHANGED <<cvars, svars, lvars, mlog>>

(* lines 77-94 and 120: one turn of the for-loop up to the delay *)
LoopStep(t) ==
    /\ tpc[t] = "loop"
    /\ IF ti[t] = Len(pages[t].tags)
       THEN /\ tpc' = [tpc EXCEPT ![t] = "done"]
            /\ overtaken' = (overtaken \/ Overtakes(t))
            /\ UNCHANGED <<ti, full_link, trail>>
       ELSE LET tag == pages[t].tags[ti[t] + 1]
            IN  /\ ti' = [ti EXCEPT ![t] = @ + 1]
                /\ overtaken' = overtaken
                /\ IF IsCheckable(tag)
                   THEN /\ full_link' = [full_link EXCEPT ![t] =
                                           urljoin(pages[t].url, LinkAttr(tag))]
                        /\ tpc' = [tpc EXCEPT ![t] = "sleep_link"]
                        /\ trail' = [trail EXCEPT ![t] = Append(@, Delay)]
                   ELSE UNCHANGED <<full_link, tpc, trail>>
    /\ UNCHANGED <<pages, net, mpc, collected, all_bad_links, bad_links, checked,
                   fetched, calls, inflight, now, start>>
    /\ UNCHANGED <<cvars, svars, lvars, mlog>>

(* HeadIssue with the start stamp taken before the delay *)
HeadIssueStampedBeforeDelay(t) ==
    /\ tpc[t] = "sleep_link"
    /\ tpc' = [tpc EXCEPT ![t] = "head"]
    /\ inflight' = inflight \cup {[task |-> t, method |-> "HEAD", url |-> full_link[t]]}
    /\ now' = [now EXCEPT ![t] = @ + REQUEST_DELAY]
    /\ start' = [start EXCEPT ![t] = now[t]]
    /\ trail' = [trail EXCEPT ![t] = Append(@, [op |-> "HEAD", url |-> full_link[t]])]
    /\ UNCHANGED overtaken
    /\ UNCHANGED <<pages, net, mpc, collected, all_bad_links, ti, full_link,
                   bad_links, checked, fetched, calls>>
    /\ UNCHANGED <<cvars, svars, lvars, mlog>>

(* lines 97-99: the delay ends and the HEAD request is sent *)
HeadIssue(t) ==
    /\ tpc[t] = "sleep_link"
    /\ tpc' = [tpc EXCEPT ![t] = "head"]
    /\ inflight' = inflight \cup {[task |-> t, method |-> "HEAD", url |-> full_link[t]]}
    /\ now' = [now EXCEPT ![t] = @ + REQUEST_DELAY]
    /\ start' = [start EXCEPT ![t] = now'[t]]
    /\ trail' = [trail EXCEPT ![t] = Append(@, [op |-> "HEAD", url |-> full_link[t]])]
    /\ UNCHANGED overtaken
    /\ UNCHANGED <<pages, net, mpc, collected, all_bad_links, ti, full_link,
                   bad_links, checked, fetched, calls>>
    /\ UNCHANGED <<cvars, svars, lvars, mlog>>

(* lines 99-117 *)
HeadReturn(t, o) ==
    /\ tpc[t] = "head"
    /\ inflight' = inflight \ {[task |-> t, method |-> "HEAD", url |-> full_link[t]]}
    /\ tpc' = [tpc EXCEPT ![t] = "loop"]
    /\ now' = [now EXCEPT ![t] = @ + Took(o)]
    /\ checked' = [checked EXCEPT ![t] =
                     Append(@, [tag |-> ti[t], link |-> full_link[t], outcome |-> o,
                                measured |-> now'[t] - start[t]])]
    /\ bad_links' = [bad_links EXCEPT ![t] =
                       AfterHead(@, pages[t].url, full_link[t],
                                 Timed(o, now'[t] - start[t]))]
    /\ UNCHANGED <<trail, start, overtaken>>
    /\ UNCHANGED <<pages, net, mpc, collected, all_bad_links, ti, full_link,
                   fetched, calls>>
    /\ UNCHANGED <<cvars, svars, lvars, mlog>>

(* Collect that does not wait for the call to finish *)
CollectWithoutWaiting ==
    /\ mpc = "pool"
    /\ collected < Len(pages)
    /\ tpc[collected + 1] # "queued"
    /\ all_bad_links' = all_bad_links \o bad_links[collected + 1]
    /\ collected' = collected + 1
    /\ UNCHANGED <<pages, net, mpc, tpc, ti, full_link, bad_links, checked,
                   fetched, calls, inflight, hvars>>
    /\ UNCHANGED <<cvars, svars, lvars, mlog>>

(* Collect that puts the newest result in front *)
CollectInFront ==
    /\ mpc = "pool"
    /\ collected < Len(pages)
    /\ tpc[collected + 1] = "done"
    /\ all_bad_links' = bad_links[collected + 1] \o all_bad_links
    /\ collected' = collected + 1
    /\ UNCHANGED <<pages, net, mpc, tpc, ti, full_link, bad_links, checked,
                   fetched, calls, inflight, hvars>>
    /\ UNCHANGED <<cvars, svars, lvars, mlog>>

(* lines 175-176: main takes the next result, in page order *)
Collect ==
    /\ mpc = "pool"
    /\ collected < Len(pages)
    /\ tpc[collected + 1] = "done"
    /\ all_bad_links' = all_bad_links \o bad_links[collected + 1]
    /\ collected' = collected + 1
    /\ UNCHANGED <<pages, net, mpc, tpc, ti, full_link, bad_links, checked,
                   fetched, calls, inflight, hvars>>
    /\ UNCHANGED <<cvars, svars, lvars, mlog>>

(* lines 176-178: the with-block ends once every call has finished *)
Summary ==
    /\ mpc = "pool"
    /\ collected = Len(pages)
    /\ \A t \in Tasks : tpc[t] = "done"
    /\ mpc' = "summary"
    /\ UNCHANGED <<pages, net, collected, all_bad_links, tpc, ti, full_link,
                   bad_links, checked, fetched, calls, inflight, hvars>>
    /\ UNCHANGED <<cvars, svars, lvars, mlog>>

VerifyNext ==
    \/ \E t \in Tasks : Start(t)
    \/ \E t \in Tasks : PageIssue(t)
    \/ \E t \in Tasks, o \in net.page : PageReturn(t, o)
    \/ \E t \in Tasks : LoopStep(t)
    \/ \E t \in Tasks : HeadIssue(t)
    \/ \E t \in Tasks, o \in net.head : HeadReturn(t, o)
    \/ Collect
    \/ Summary

(* One page with any markup of the catalogue, any answers *)
InitPage ==
    \E u \in PageUrls, ts \in TagSeqs(MaxTags) :
        InitTasks(<<[url |-> u, tags |-> ts]>>, AnyNet) /\ CrawlIdle /\ SitemapIdle /\ LocateIdle

SpecPage == InitPage /\ [][VerifyNext]_vars

(* Page lists for the pool: pages with none, one and two links to check *)
PageNone == [url |-> <<"http:", "//", "a.test">>, tags |-> <<Tag("a", <<>>, RelLink, NoAttr)>>]
PageOne == [url |-> <<"http:", "//", "a.test", "/p">>,
            tags |-> <<Tag("img", <<>>, NoAttr, HttpsB)>>]
PageTwo == [url |-> <<"http:", "//", "a.test", "/q">>,
            tags |-> <<Tag("a", <<>>, HttpA, NoAttr),
                       Tag("link", <<"stylesheet">>, HttpsB, NoAttr)>>]

PageLists(S, n) == UNION {[1..k -> S] : k \in 0..n}

PoolNet == [page |-> {[kind |-> "resp", code |-> 200], [kind |-> "error"]},
            head |-> {[kind |-> "resp", code |-> 200, elapsed |-> 10],
                      [kind |-> "resp", code |-> 404, elapsed |-> 10],
                      [kind |-> "error"]}]

InitPool ==
    \E ps \in PageLists({PageNone, PageOne, PageTwo}, MaxPoolPages) : InitTasks(ps, PoolNet) /\ CrawlIdle /\ SitemapIdle /\ LocateIdle

SpecPool == InitPool /\ [][VerifyNext]_vars

QuietNet == [page |-> {[kind |-> "resp", code |-> 200]},
             head |-> {[kind |-> "resp", code |-> 200, elapsed |-> 10]}]

InitLoad ==
    \E ps \in PageLists({PageOne}, MaxLoadPages) : InitTasks(ps, QuietNet) /\ CrawlIdle /\ SitemapIdle /\ LocateIdle

SpecLoad == InitLoad /\ [][VerifyNext]_vars

----------------------------------------------------------------------------
(* The fallback crawler, crawl_site(start_url, max_pages) *)

Root == <<"http:", "//", "a.test">>

CrawlPages == {Root, Root \o <<"/p">>, Root \o <<"/q">>, Root \o <<"/d">>}

(* The anchors of a page, as the href values in document order *)
LinkLists ==
    { <<>>,
      << <<"/p">>, <<"/q">> >>,
      << <<"/q">>, HttpsB, <<"/d">>, <<"/q">> >>,
      << HttpA, SchemeRel, Root, NoAttr >>,
      << MailLink, <<"r">>, <<"/d">>, <<"https:", "//", "a.test", "/p">> >> }

PageAnswers ==
    {[kind |-> "html", links |-> l] : l \in LinkLists}
      \cup {[kind |-> k, links |-> <<>>] : k \in {"non200", "nonhtml", "error"}}
      \* an error page and a non-HTML document that hold anchors
      \cup {[kind |-> k, links |-> << <<"/d">>, <<"/q">> >>] : k \in {"non200", "nonhtml"}}

Sites == [CrawlPages -> PageAnswers]

(* requests.get(url) on the static site s; a URL the site does not have is a 404 *)
Answer(s, u) == IF u \in DOMAIN s THEN s[u] ELSE [kind |-> "non200", links |-> <<>>]

InSeq(q, x) == \E i \in 1..Len(q) : q[i] = x

(* line 128 *)
domain == urlparse(start_url).netloc

(* MayEnqueue without the same-domain test *)
MayEnqueueAnyDomain(abs_link, dom, vis, q) ==
    /\ abs_link \notin vis
    /\ ~InSeq(q, abs_link)

(* MayEnqueue without the look into to_visit *)
MayEnqueueUnlessVisited(abs_link, dom, vis, q) ==
    /\ urlparse(abs_link).netloc = dom
    /\ abs_link \notin vis

(* line 150: the link may be queued *)
MayEnqueue(abs_link, dom, vis, q) ==
    /\ urlparse(abs_link).netloc = dom
    /\ abs_link \notin vis
    /\ ~InSeq(q, abs_link)

(* EnqueueLinks putting each new link at the front of to_visit *)
RECURSIVE EnqueueLinksAtFront(_, _, _, _, _)
EnqueueLinksAtFront(q, links, base, dom, vis) ==
    IF Len(links) = 0 THEN q
    ELSE LET link == Head(links)
             abs_link == urljoin(base, link)
             q2 == IF Len(link) > 0 /\ MayEnqueue(abs_link, dom, vis, q)
                   THEN <<abs_link>> \o q ELSE q
         IN  EnqueueLinksAtFront(q2, Tail(links), base, dom, vis)

(* EnqueueLinks that looks at the first anchor of the page only *)
EnqueueLinksFirstOnly(q, links, base, dom, vis) ==
    IF Len(links) = 0 \/ Len(Head(links)) = 0
          \/ ~MayEnqueue(urljoin(base, Head(links)), dom, vis, q)
    THEN q
    ELSE Append(q, urljoin(base, Head(links)))

(* lines 144-151: to_visit after the anchors of the page at base *)
RECURSIVE EnqueueLinks(_, _, _, _, _)
EnqueueLinks(q, links, base, dom, vis) ==
    IF Len(links) = 0 THEN q
    ELSE LET link == Head(links)
             abs_link == urljoin(base, link)
             q2 == IF Len(link) > 0 /\ MayEnqueue(abs_link, dom, vis, q)
                   THEN Append(q, abs_link) ELSE q
         IN  EnqueueLinks(q2, Tail(links), base, dom, vis)

(* LoopGoesOn with <= for < *)
LoopGoesOnInclusive(q, found, m) == Len(q) > 0 /\ Len(found) <= m

(* line 130: the loop goes on *)
LoopGoesOn(q, found, m) == Len(q) > 0 /\ Len(found) < m

(* lines 123-128: the state on entry *)
InitCrawl(s, u, m) ==
    /\ site = s
    /\ start_url = u
    /\ max_pages = m
    /\ cpc = "loop"
    /\ visited = {}
    /\ to_visit = <<u>>
    /\ found_pages = <<>>
    /\ url = <<>>
    /\ fetchlog = <<>>

(* lines 130-136: the loop test, the pop, the visited test, the request *)
CrawlPop ==
    /\ cpc = "loop"
    /\ LoopGoesOn(to_visit, found_pages, max_pages)
    /\ url' = Head(to_visit)
    /\ to_visit' = Tail(to_visit)
    /\ IF Head(to_visit) \in visited
       THEN UNCHANGED <<visited, cpc, fetchlog>>
       ELSE /\ visited' = visited \cup {Head(to_visit)}
            /\ cpc' = "fetch"
            /\ fetchlog' = Append(fetchlog,
                                  [url |-> Head(to_visit), found |-> Len(found_pages)])
    /\ mlog' = IF Head(to_visit) \in visited THEN mlog
               ELSE Append(mlog, Request(Head(to_visit)))
    /\ UNCHANGED <<site, start_url, max_pages, found_pages>>
    /\ UNCHANGED <<vvars, svars, lvars>>

(* The answer test that takes every answered request *)
IsHtmlPageAnyAnswer(resp) == resp.kind # "error"

(* lines 137-141: status 200 and 'html' in the content type *)
IsHtmlPage(resp) == resp.kind = "html"

(* lines 136-153: the answer, and the anchors of an HTML page *)
CrawlFetch ==
    /\ cpc = "fetch"
    /\ cpc' = "loop"
    /\ LET resp == Answer(site, url)
       IN  IF IsHtmlPage(resp)
           THEN /\ found_pages' = Append(found_pages, url)
                /\ to_visit' = EnqueueLinks(to_visit, resp.links, url, domain, visited)
           ELSE UNCHANGED <<found_pages, to_visit>>
    /\ UNCHANGED <<site, start_url, max_pages, visited, url, fetchlog, mlog>>
    /\ UNCHANGED <<vvars, svars, lvars>>

(* lines 130 and 154: the loop ends and found_pages is returned *)
CrawlReturn ==
    /\ cpc = "loop"
    /\ ~LoopGoesOn(to_visit, found_pages, max_pages)
    /\ cpc' = "done"
    /\ UNCHANGED <<site, start_url, max_pages, visited, to_visit, found_pages, url,
                   fetchlog, mlog>>
    /\ UNCHANGED <<vvars, svars, lvars>>

CrawlNext == CrawlPop \/ CrawlFetch \/ CrawlReturn

InitCrawlSite ==
    /\ \E s \in Sites, m \in 0..MaxCeiling : InitCrawl(s, Root, m)
    /\ VerifyIdle
    /\ SitemapIdle
    /\ LocateIdle

SpecCrawl == InitCrawlSite /\ [][CrawlNext]_vars

----------------------------------------------------------------------------
(* The sitemap resolver, parse_sitemap(sitemap_url) *)

(* An XML element: namespace ("" when none), local name, text, children *)
Elem(ns, name, text, children) ==
    [ns |-> ns, name |-> name, text |-> text, children |-> children]

NsSm == "{sm}"
NsImg == "{img}"

Loc(ns, text) == Elem(ns, "loc", text, <<>>)
Entry(ns, name, text) == Elem(ns, name, <<>>, <<Loc(ns, text)>>)

SmUrl(k) == <<"http:", "//", "a.test", k>>
S0 == SmUrl("/s0")
S1 == SmUrl("/s1")
S2 == SmUrl("/s2")
S3 == SmUrl("/s3")
SitemapUrls == {S0, S1, S2, S3}

Pg(k) == <<"http:", "//", "a.test", k>>

Failed == [kind |-> "fail"]
Xml(root) == [kind |-> "xml", tree |-> root]

(* The documents a sitemap URL may hold *)
DocAnswers ==
    { Failed,
      \* a urlset with no namespace
      Xml(Elem("", "urlset", <<>>,
               <<Entry("", "url", Pg("/p")), Entry("", "url", Pg("/q"))>>)),
      \* a urlset with a namespace, an image extension, an empty and a missing loc
      Xml(Elem(NsSm, "urlset", <<>>,
               <<Elem(NsSm, "url", <<>>,
                      <<Elem(NsImg, "image", <<>>, <<Loc(NsImg, Pg("/i"))>>),
                        Loc(NsSm, Pg("/d"))>>),
                 Entry(NsSm, "url", <<>>),
                 Elem(NsSm, "url", <<>>, <<>>),
                 Entry(NsSm, "url", Pg("/p"))>>)),
      \* indexes
      Xml(Elem("", "sitemapindex", <<>>,
               <<Entry("", "sitemap", S1), Entry("", "sitemap", S2)>>)),
      Xml(Elem(NsSm, "sitemapindex", <<>>,
               <<Entry(NsSm, "sitemap", S3), Entry(NsSm, "sitemap", <<>>),
                 Entry(NsSm, "sitemap", S2)>>)),
      Xml(Elem("", "sitemapindex", <<>>,
               <<Entry("", "sitemap", S1), Entry("", "sitemap", S2),
                 Entry("", "sitemap", S3)>>)),
      \* url and sitemap entries side by side
      Xml(Elem("", "urlset", <<>>,
               <<Entry("", "url", Pg("/r")), Entry("", "sitemap", S3),
                 Entry("", "url", Pg("/q"))>>)),
      \* an index that names the root index
      Xml(Elem("", "sitemapindex", <<>>,
               <<Entry("", "sitemap", S0), Entry("", "sitemap", S3)>>)),
      \* entries below a wrapper element
      Xml(Elem("", "urlset", <<>>,
               <<Elem("", "group", <<>>, <<Entry("", "url", Pg("/p"))>>),
                 Entry("", "url", Pg("/d"))>>)) }

DocSets == [SitemapUrls -> DocAnswers]

(* requests.get + raise_for_status + ET.fromstring, lines 40-47 *)
Document(ds, u) == IF u \in DOMAIN ds THEN ds[u] ELSE Failed

(* The descendants of an element in document order: what './/' ranges over *)
RECURSIVE DescendantsOf(_)
DescendantsOf(children) ==
    IF Len(children) = 0 THEN <<>>
    ELSE <<Head(children)>> \o DescendantsOf(Head(children).children)
           \o DescendantsOf(Tail(children))

(* lines 51-53 *)
NsOf(tree) == tree.ns

(* tree.findall('.//{ns}name'), lines 56 and 62 *)
FindAll(tree, ns, name) ==
    SelectSeq(DescendantsOf(tree.children), LAMBDA e : e.ns = ns /\ e.name = name)

(* elem.find('{ns}loc') and the test on its text, lines 57-58 and 63-64;  *)
(* the empty sequence when there is no usable loc                         *)
LocText(elem, ns) ==
    LET ls == SelectSeq(elem.children, LAMBDA e : e.ns = ns /\ e.name = "loc")
    IN  IF Len(ls) = 0 THEN <<>> ELSE Head(ls).text

RECURSIVE LocTexts(_, _)
LocTexts(elems, ns) ==
    IF Len(elems) = 0 THEN <<>>
    ELSE (IF Len(LocText(Head(elems), ns)) > 0
          THEN <<LocText(Head(elems), ns)>> ELSE <<>>)
         \o LocTexts(Tail(elems), ns)

(* lines 56-58: the locations parse_sitemap recurses into, in order *)
ChildSitemaps(tree) == LocTexts(FindAll(tree, NsOf(tree), "sitemap"), NsOf(tree))

(* lines 62-65: the page URLs the document itself lists *)
OwnUrls(tree) == LocTexts(FindAll(tree, NsOf(tree), "url"), NsOf(tree))

Frame(u) == [sitemap_url |-> u, phase |-> "fetch", children |-> <<>>, i |-> 0,
             urls |-> <<>>, own |-> <<>>]

Top == stack[Len(stack)]

(* ReturnTo with the caller's list assigned instead of extended *)
ReturnToAssigning(stk, r) ==
    IF Len(stk) = 1 THEN <<>>
    ELSE [Front(stk) EXCEPT ![Len(stk) - 1].urls = r]

(* The call of the innermost frame returns r to its caller (line 59 or main) *)
ReturnTo(stk, r) ==
    IF Len(stk) = 1 THEN <<>>
    ELSE [Front(stk) EXCEPT ![Len(stk) - 1].urls = @ \o r]

InitSitemap(ds, u) ==
    /\ docs = ds
    /\ spc = "run"
    /\ stack = <<Frame(u)>>
    /\ sm_pages = <<>>

(* SmFetch where a failure ends the whole resolution with nothing *)
SmFetchFailureFatal ==
    /\ spc = "run"
    /\ Top.phase = "fetch"
    /\ LET d == Document(docs, Top.sitemap_url)
       IN  IF d.kind = "fail"
           THEN /\ stack' = <<>>
                /\ spc' = "done"
                /\ sm_pages' = <<>>
           ELSE /\ stack' = [stack EXCEPT ![Len(stack)] =
                               [@ EXCEPT !.phase = "walk",
                                         !.children = ChildSitemaps(d.tree),
                                         !.own = OwnUrls(d.tree)]]
                /\ UNCHANGED <<spc, sm_pages>>
    /\ mlog' = Append(mlog, Request(Top.sitemap_url))
    /\ UNCHANGED docs
    /\ UNCHANGED <<vvars, cvars, lvars>>

(* lines 40-54: fetch and parse of the innermost call *)
SmFetch ==
    /\ spc = "run"
    /\ Top.phase = "fetch"
    /\ LET d == Document(docs, Top.sitemap_url)
       IN  IF d.kind = "fail"
           THEN /\ stack' = ReturnTo(stack, <<>>)
                /\ IF Len(stack) = 1
                   THEN spc' = "done" /\ sm_pages' = <<>>
                   ELSE UNCHANGED <<spc, sm_pages>>
           ELSE /\ stack' = [stack EXCEPT ![Len(stack)] =
                               [@ EXCEPT !.phase = "walk",
                                         !.children = ChildSitemaps(d.tree),
                                         !.own = OwnUrls(d.tree)]]
                /\ UNCHANGED <<spc, sm_pages>>
    /\ mlog' = Append(mlog, Request(Top.sitemap_url))
    /\ UNCHANGED docs
    /\ UNCHANGED <<vvars, cvars, lvars>>

(* lines 56-59: the next <sitemap> entry is resolved by a nested call *)
SmRecurse ==
    /\ spc = "run"
    /\ Top.phase = "walk"
    /\ Top.i < Len(Top.children)
    /\ Len(stack) < MaxDepth
    /\ stack' = Append([stack EXCEPT ![Len(stack)].i = @ + 1],
                       Frame(Top.children[Top.i + 1]))
    /\ UNCHANGED <<docs, spc, sm_pages, mlog>>
    /\ UNCHANGED <<vvars, cvars, lvars>>

(* lines 62-67: the <url> entries are appended and the call returns *)
SmReturn ==
    /\ spc = "run"
    /\ Top.phase = "walk"
    /\ Top.i = Len(Top.children)
    /\ stack' = ReturnTo(stack, Top.urls \o Top.own)
    /\ IF Len(stack) = 1
       THEN spc' = "done" /\ sm_pages' = Top.urls \o Top.own
       ELSE UNCHANGED <<spc, sm_pages>>
    /\ UNCHANGED <<docs, mlog>>
    /\ UNCHANGED <<vvars, cvars, lvars>>

SitemapNext == SmFetch \/ SmRecurse \/ SmReturn

InitResolve ==
    /\ \E ds \in DocSets : InitSitemap(ds, S0)
    /\ VerifyIdle
    /\ CrawlIdle
    /\ LocateIdle

SpecSitemap == InitResolve /\ [][SitemapNext]_vars

----------------------------------------------------------------------------
(* The sitemap locator, find_sitemap(url) *)

(* None, the value find_sitemap returns when it finds nothing *)
None == <<"<None>">>

(* lines 16-20: the candidate locations, in the order they are tried *)
candidates == << <<"/sitemap.xml">>, <<"/sitemap_index.xml">>,
                 <<"/sitemap", "/sitemap.xml">> >>

(* What a candidate location may answer *)
ProbeAnswers ==
    {[kind |-> "resp", code |-> 200, content |-> <<"<urlset/>">>],
     [kind |-> "resp", code |-> 200, content |-> <<>>],
     [kind |-> "resp", code |-> 404, content |-> <<"<html/>">>],
     [kind |-> "error"]}

(* The lines a robots.txt may hold; white space is the token " " *)
RobotsLines ==
    { <<"User-agent:", " ", "*">>,
      <<"Sitemap:", " ">> \o S0 \o <<" ">>,
      <<"SITEMAP:">> \o S1,
      <<"sitemap:", " ", " ">> \o S2,
      <<" ", "Sitemap:", " ">> \o S3,
      <<"Disallow:", " ", "/sitemap:">>,
      <<"Sitemap:", " ">> }

RobotsTexts == UNION {[1..n -> RobotsLines] : n \in 0..MaxLines}

RobotsAnswers ==
    {[kind |-> "resp", code |-> 200, text |-> t] : t \in RobotsTexts}
      \cup {[kind |-> "resp", code |-> 404,
             text |-> << <<"Sitemap:", " ">> \o S0 >>],
            [kind |-> "error"]}

(* str.lower on a token, on a line *)
LowerToken(tok) ==
    CASE tok \in {"Sitemap:", "SITEMAP:"} -> "sitemap:"
      [] tok = "User-agent:" -> "user-agent:"
      [] tok = "Disallow:" -> "disallow:"
      [] OTHER -> tok

lower(line) == [i \in DOMAIN line |-> LowerToken(line[i])]

(* The tokens that hold a colon; in each of them it is the last character *)
ColonTokens == {"Sitemap:", "SITEMAP:", "sitemap:", "User-agent:", "Disallow:",
                "http:", "https:", "mailto:", "/sitemap:"}

(* line.split(':', 1)[1]: what follows the first colon of the line *)
AfterFirstColon(line) ==
    LET at == {i \in DOMAIN line : line[i] \in ColonTokens}
    IN  IF at = {} THEN <<>>
        ELSE Drop(line, CHOOSE i \in at : \A j \in at : i <= j)

(* str.strip: white space removed at both ends *)
RECURSIVE lstrip(_)
lstrip(s) == IF Len(s) > 0 /\ s[1] = " " THEN lstrip(Tail(s)) ELSE s

RECURSIVE rstrip(_)
rstrip(s) == IF Len(s) > 0 /\ s[Len(s)] = " " THEN rstrip(Front(s)) ELSE s

strip(s) == rstrip(lstrip(s))

(* line 33: the test of a robots.txt line, with the case kept as written *)
IsSitemapLineCaseSensitive(line) == StartsWith(line, <<"sitemap:">>)

(* line 33: line.lower().startswith('sitemap:') *)
IsSitemapLine(line) == StartsWith(lower(line), <<"sitemap:">>)

(* lines 32-34: the value returned for the first sitemap line, None without one *)
RECURSIVE FromRobots(_)
FromRobots(text) ==
    IF Len(text) = 0 THEN None
    ELSE IF IsSitemapLine(Head(text)) THEN strip(AfterFirstColon(Head(text)))
    ELSE FromRobots(Tail(text))

(* line 24: a candidate is taken *)
ProbeHit(resp) == resp.kind = "resp" /\ resp.code = 200 /\ resp.content # <<>>

(* lines 15-20: the state on entry *)
InitLocate(u, ps, rb) ==
    /\ site_url = u
    /\ probes = ps
    /\ robots = rb
    /\ fpc = "probe"
    /\ ci = 1
    /\ sitemap_url = <<>>
    /\ mlog = <<>>

(* lines 21-27: one candidate is requested; a hit returns it, anything else *)
(* (another status, an empty body, a request error) goes on to the next     *)
FsProbe ==
    /\ fpc = "probe"
    /\ LET candidate == urljoin(site_url, candidates[ci])
       IN  /\ mlog' = Append(mlog, Request(candidate))
           /\ IF probes[ci].kind # "error" /\ ProbeHit(probes[ci])
              THEN fpc' = "done" /\ sitemap_url' = candidate /\ ci' = ci
              ELSE /\ sitemap_url' = sitemap_url
                   /\ IF ci < Len(candidates)
                      THEN ci' = ci + 1 /\ fpc' = fpc
                      ELSE ci' = ci /\ fpc' = "robots"
    /\ UNCHANGED <<site_url, probes, robots>>
    /\ UNCHANGED <<vvars, cvars, svars>>

(* lines 28-37: robots.txt is requested and searched for a sitemap line *)
FsRobots ==
    /\ fpc = "robots"
    /\ mlog' = Append(mlog, Request(urljoin(site_url, <<"/robots.txt">>)))
    /\ fpc' = "done"
    /\ sitemap_url' = IF robots.kind = "resp" /\ robots.code = 200
                      THEN FromRobots(robots.text)
                      ELSE None
    /\ UNCHANGED <<site_url, probes, robots, ci>>
    /\ UNCHANGED <<vvars, cvars, svars>>

LocateNext == FsProbe \/ FsRobots

InitFindSitemap ==
    /\ \E ps \in [1..Len(candidates) -> ProbeAnswers], rb \in RobotsAnswers :
           InitLocate(Root, ps, rb)
    /\ VerifyIdle
    /\ CrawlIdle
    /\ SitemapIdle

SpecLocate == InitFindSitemap /\ [][LocateNext]_vars

----------------------------------------------------------------------------
(* main: discovery by find_sitemap, then parse_sitemap or crawl_site, then  *)
(* the pool over the pages found                                            *)

(* line 163: not sitemap_url *)
Falsy(v) == v = None \/ v = <<>>

(* The markup check_links reads at a page of the site: its anchors *)
MarkupOf(s, u) ==
    IF Answer(s, u).kind = "error" THEN <<>>
    ELSE [i \in DOMAIN Answer(s, u).links |->
             Tag("a", <<>>, Answer(s, u).links[i], NoAttr)]

PageAt(s, u) == [url |-> u, tags |-> MarkupOf(s, u)]

(* main's crawl_site with the sitemap test of line 163 left out of the guard *)
MainCrawlAfterEmptySitemap ==
    /\ mpc = "discover"
    /\ fpc = "done"
    /\ cpc = "idle"
    /\ \/ spc = "idle" /\ Falsy(sitemap_url)
       \/ spc = "done" /\ sm_pages = <<>>
    /\ start_url' = site_url
    /\ max_pages' = DefaultMaxPages
    /\ cpc' = "loop"
    /\ visited' = {}
    /\ to_visit' = <<site_url>>
    /\ found_pages' = <<>>
    /\ UNCHANGED <<site, url, fetchlog, mlog>>
    /\ UNCHANGED <<vvars, svars, lvars>>

(* lines 163-165 and 122-128: no sitemap was found, crawl_site(url) is entered *)
MainCrawl ==
    /\ mpc = "discover"
    /\ fpc = "done"
    /\ cpc = "idle"
    /\ spc = "idle"
    /\ Falsy(sitemap_url)
    /\ start_url' = site_url
    /\ max_pages' = DefaultMaxPages
    /\ cpc' = "loop"
    /\ visited' = {}
    /\ to_visit' = <<site_url>>
    /\ found_pages' = <<>>
    /\ UNCHANGED <<site, url, fetchlog, mlog>>
    /\ UNCHANGED <<vvars, svars, lvars>>

(* lines 166-168: a sitemap was found, parse_sitemap(sitemap_url) is entered *)
MainParse ==
    /\ mpc = "discover"
    /\ fpc = "done"
    /\ cpc = "idle"
    /\ spc = "idle"
    /\ ~Falsy(sitemap_url)
    /\ spc' = "run"
    /\ stack' = <<Frame(sitemap_url)>>
    /\ UNCHANGED <<docs, sm_pages, mlog>>
    /\ UNCHANGED <<vvars, cvars, lvars>>

(* lines 165, 168-174: the pages are there and the calls are submitted *)
MainPool ==
    /\ mpc = "discover"
    /\ cpc = "done" \/ spc = "done"
    /\ LET found == IF cpc = "done" THEN found_pages ELSE sm_pages
       IN  /\ pages' = [i \in DOMAIN found |-> PageAt(site, found[i])]
           /\ tpc' = [t \in DOMAIN found |-> "queued"]
           /\ ti' = [t \in DOMAIN found |-> 0]
           /\ full_link' = [t \in DOMAIN found |-> <<>>]
           /\ bad_links' = [t \in DOMAIN found |-> <<>>]
           /\ checked' = [t \in DOMAIN found |-> <<>>]
           /\ fetched' = [t \in DOMAIN found |-> NotFetched]
           /\ calls' = [t \in DOMAIN found |-> 0]
           /\ trail' = [t \in DOMAIN found |-> <<>>]
           /\ now' = [t \in DOMAIN found |-> 0]
           /\ start' = [t \in DOMAIN found |-> 0]
    /\ mpc' = "pool"
    /\ UNCHANGED <<net, collected, all_bad_links, inflight, overtaken>>
    /\ UNCHANGED <<cvars, svars, lvars, mlog>>

(* The sites, sitemap documents and locator answers of the whole-run model *)
MainSites ==
    { [u \in CrawlPages |->
         CASE u = Root -> [kind |-> "html", links |-> << <<"/p">>, <<"/q">> >>]
           [] u = Root \o <<"/p">> ->
                [kind |-> "html", links |-> << <<"/q">>, HttpsB, <<"/d">>, <<"/q">> >>]
           [] u = Root \o <<"/q">> ->
                [kind |-> "non200", links |-> << <<"/d">>, <<"/q">> >>]
           [] OTHER -> [kind |-> "html", links |-> << HttpA, SchemeRel, Root, NoAttr >>]],
      [u \in CrawlPages |->
         IF u = Root THEN [kind |-> "error", links |-> <<>>]
         ELSE [kind |-> "html", links |-> <<>>]] }

MainDocs ==
    { [u \in SitemapUrls |->
         CASE u = S0 -> Xml(Elem("", "sitemapindex", <<>>,
                                 <<Entry("", "sitemap", S1), Entry("", "sitemap", S2)>>))
           [] u = S1 -> Xml(Elem("", "urlset", <<>>,
                                 <<Entry("", "url", Pg("/p")), Entry("", "url", Pg("/q"))>>))
           [] OTHER -> Failed],
      [u \in SitemapUrls |-> Failed] }

MainProbes ==
    { <<[kind |-> "error"],
        [kind |-> "resp", code |-> 404, content |-> <<"<html/>">>],
        [kind |-> "resp", code |-> 200, content |-> <<>>]>>,
      <<[kind |-> "resp", code |-> 404, content |-> <<"<html/>">>],
        [kind |-> "resp", code |-> 200, content |-> <<"<urlset/>">>],
        [kind |-> "resp", code |-> 200, content |-> <<"<urlset/>">>]>> }

MainRobots ==
    { [kind |-> "error"],
      [kind |-> "resp", code |-> 200,
       text |-> << <<"User-agent:", " ", "*">>, <<"Sitemap:", " ">> \o S0 \o <<" ">> >>],
      [kind |-> "resp", code |-> 200, text |-> << <<"Sitemap:", " ">> >>] }

(* lines 156-162: main has read its argument and calls find_sitemap *)
InitMain ==
    /\ \E ps \in MainProbes, rb \in MainRobots : InitLocate(Root, ps, rb)
    /\ site \in MainSites
    /\ start_url = <<>> /\ max_pages = 0 /\ cpc = "idle" /\ visited = {}
    /\ to_visit = <<>> /\ found_pages = <<>> /\ url = <<>> /\ fetchlog = <<>>
    /\ docs \in MainDocs
    /\ spc = "idle" /\ stack = <<>> /\ sm_pages = <<>>
    /\ pages = <<>> /\ net = PoolNet /\ mpc = "discover" /\ collected = 0
    /\ all_bad_links = <<>> /\ tpc = <<>> /\ ti = <<>> /\ full_link = <<>>
    /\ bad_links = <<>> /\ checked = <<>> /\ fetched = <<>> /\ calls = <<>>
    /\ inflight = {} /\ trail = <<>> /\ now = <<>> /\ start = <<>>
    /\ overtaken = FALSE

MainNext ==
    \/ LocateNext
    \/ MainCrawl
    \/ MainParse
    \/ CrawlNext
    \/ SitemapNext
    \/ MainPool
    \/ VerifyNext

SpecMain == InitMain /\ [][MainNext]_vars

----------------------------------------------------------------------------
(* Properties of check_links, checked under SpecPage *)

(* The relevant attribute of a tag: href for a and link, src for img and script *)
Relevant(tag) == IF tag.name \in {"a", "link"} THEN tag.href ELSE tag.src

(* A tag that must never be verified: a preconnect/dns-prefetch hint, a value *)
(* that does not begin with http:// or https://, a value with xmlrpc.php      *)
Excluded(tag) ==
    \/ tag.name = "link"
         /\ \E i \in DOMAIN tag.rel : tag.rel[i] \in {"preconnect", "dns-prefetch"}
    \/ ~(/\ Len(Relevant(tag)) >= 2
         /\ Relevant(tag)[1] \in {"http:", "https:"}
         /\ Relevant(tag)[2] = "//")
    \/ \E i \in DOMAIN Relevant(tag) : Relevant(tag)[i] = "/xmlrpc.php"

AnsweredBad(c) ==
    c.outcome.kind = "resp" /\ (c.outcome.code # 200 \/ c.outcome.elapsed > 10)

(* C1: every HEAD check that got an HTTP response yields exactly one Finding  *)
(* when the status is not 200 or the elapsed time exceeds 10, and none when   *)
(* the status is 200 and the time is at most 10; the Finding carries the      *)
(* status, the page URL, the resolved link and the elapsed time, in order.    *)
C1_FindingIffBadOrSlow ==
    \A t \in Tasks :
        LET hs == SelectSeq(checked[t], AnsweredBad)
            fs == SelectSeq(bad_links[t], LAMBDA f : f.code # ERR)
        IN  /\ Len(fs) = Len(hs)
            /\ \A i \in 1..Len(hs) :
                 /\ hs[i].link = urljoin(pages[t].url, Relevant(pages[t].tags[hs[i].tag]))
                 /\ fs[i] = [code |-> hs[i].outcome.code,
                             page |-> pages[t].url,
                             broken_link |-> hs[i].link,
                             response_time |-> hs[i].outcome.elapsed]

C1_Witness ==
    \E t \in Tasks :
        /\ tpc[t] = "done"
        /\ Len(checked[t]) = 2
        /\ checked[t][1].outcome = [kind |-> "resp", code |-> 200, elapsed |-> 10]
        /\ checked[t][2].outcome = [kind |-> "resp", code |-> 200, elapsed |-> 11]
        /\ Len(bad_links[t]) = 1
        /\ bad_links[t][1].response_time = 11

(* C2: no HEAD request is prepared, sent or answered, and no Finding exists,  *)
(* for an excluded tag: a link tag with rel preconnect or dns-prefetch, a     *)
(* value not beginning with http:// or https://, a value with xmlrpc.php.     *)
C2_ExcludedNeverChecked ==
    \A t \in Tasks :
        /\ tpc[t] \in {"sleep_link", "head"} => ~Excluded(pages[t].tags[ti[t]])
        /\ \A r \in inflight :
             r.task = t /\ r.method = "HEAD" =>
                /\ tpc[t] = "head"
                /\ r.url = urljoin(pages[t].url, Relevant(pages[t].tags[ti[t]]))
        /\ \A i \in DOMAIN checked[t] : ~Excluded(pages[t].tags[checked[t][i].tag])
        /\ \A i, j \in DOMAIN checked[t] : i < j => checked[t][i].tag < checked[t][j].tag
        /\ \A j \in DOMAIN bad_links[t] :
             \E i \in DOMAIN checked[t] : checked[t][i].link = bad_links[t][j].broken_link

C2_Witness ==
    \E t \in Tasks :
        /\ tpc[t] = "done"
        /\ Len(pages[t].tags) = 2
        /\ Contains(Relevant(pages[t].tags[1]), "/xmlrpc.php")
        /\ Len(checked[t]) = 1
        /\ checked[t][1].tag = 2
        /\ checked[t][1].outcome.kind = "resp"
        /\ checked[t][1].outcome.code = 404
        /\ Len(bad_links[t]) = 1

(* C3: an SSL failure of a HEAD check yields no Finding, any other network    *)
(* failure yields exactly one Finding with status ERR and no response time,   *)
(* and in both cases the rest of the page's links are still checked.          *)
C3_HeadFailures ==
    \A t \in Tasks :
        LET es == SelectSeq(checked[t], LAMBDA c : c.outcome.kind = "error")
            ss == SelectSeq(checked[t], LAMBDA c : c.outcome.kind = "ssl")
            fs == SelectSeq(bad_links[t], LAMBDA f : f.code = ERR)
        IN  /\ Len(fs) = Len(es)
            /\ \A i \in 1..Len(es) :
                 fs[i] = [code |-> ERR, page |-> pages[t].url,
                          broken_link |-> es[i].link, response_time |-> NoTime]
            /\ Len(bad_links[t]) <= Len(checked[t]) - Len(ss)
            /\ (tpc[t] = "done" /\ fetched[t] = [kind |-> "resp", code |-> 200]) =>
                 Len(checked[t]) =
                   Cardinality({i \in DOMAIN pages[t].tags : ~Excluded(pages[t].tags[i])})

C3_Witness ==
    \E t \in Tasks :
        /\ tpc[t] = "done"
        /\ Len(checked[t]) = 2
        /\ checked[t][1].outcome.kind = "ssl"
        /\ checked[t][2].outcome.kind = "error"
        /\ Len(bad_links[t]) = 1
        /\ bad_links[t][1].code = ERR

(* C4: when the fetch of the page answers a status other than 200 or fails,   *)
(* check_links returns an empty list and no HEAD request is ever made.        *)
C4_PageFetchFailure ==
    \A t \in Tasks :
        (fetched[t].kind = "error" \/ (fetched[t].kind = "resp" /\ fetched[t].code # 200)) =>
            /\ tpc[t] = "done"
            /\ bad_links[t] = <<>>
            /\ checked[t] = <<>>
            /\ \A r \in inflight : r.task # t

C4_Witness ==
    \E t \in Tasks :
        /\ fetched[t] = [kind |-> "resp", code |-> 404]
        /\ tpc[t] = "done"
        /\ Len(pages[t].tags) = 2
        /\ ~Excluded(pages[t].tags[1])
        /\ bad_links[t] = <<>>

----------------------------------------------------------------------------
(* Properties of the pool block of main, checked under SpecPool and SpecLoad *)

RECURSIVE IsSubseq(_, _)
IsSubseq(a, b) ==
    IF Len(a) = 0 THEN TRUE
    ELSE IF Len(b) = 0 THEN FALSE
    ELSE IF Head(a) = Head(b) THEN IsSubseq(Tail(a), Tail(b))
    ELSE IsSubseq(a, Tail(b))

Occurrences(q, x) == Cardinality({i \in DOMAIN q : q[i] = x})

RECURSIVE SumOver(_, _)
SumOver(f, S) ==
    IF S = {} THEN 0
    ELSE LET x == CHOOSE y \in S : TRUE IN f[x] + SumOver(f, S \ {x})

(* C5: the summary stage is reached only when the check_links call of every   *)
(* page has finished, each page having been checked exactly once; the         *)
(* aggregated list then holds exactly the Findings the calls returned, those  *)
(* of one call in the order the call emitted them.                            *)
C5_SummaryAfterAll ==
    mpc = "summary" =>
        /\ \A t \in Tasks : tpc[t] = "done" /\ calls[t] = 1
        /\ inflight = {}
        /\ Len(all_bad_links) = SumOver([t \in Tasks |-> Len(bad_links[t])], Tasks)
        /\ \A t \in Tasks : IsSubseq(bad_links[t], all_bad_links)
        /\ \A i \in DOMAIN all_bad_links :
             Occurrences(all_bad_links, all_bad_links[i]) =
               SumOver([t \in Tasks |-> Occurrences(bad_links[t], all_bad_links[i])], Tasks)

C5_Witness ==
    /\ mpc = "summary"
    /\ Len(pages) = 2
    /\ Len(bad_links[1]) = 2
    /\ bad_links[1][1].code = 404
    /\ bad_links[1][2].code = ERR
    /\ Len(bad_links[2]) = 1
    /\ Len(all_bad_links) = 3

(* C6: at most 5 check_links calls run at any time, each with at most one     *)
(* request outstanding, so at most 5 requests are in flight, however long the *)
(* page list is.                                                              *)
C6_AtMostFive ==
    /\ Cardinality(Running) <= 5
    /\ Cardinality(inflight) <= 5
    /\ \A t \in Tasks : Cardinality({r \in inflight : r.task = t}) <= 1
    /\ \A r \in inflight : r.task \in Running

C6_Witness ==
    /\ Len(pages) = 6
    /\ Cardinality({r \in inflight : r.method = "HEAD"}) = 5
    /\ tpc[6] = "queued"

----------------------------------------------------------------------------
(* Properties of crawl_site, checked under SpecCrawl *)

Range(q) == {q[i] : i \in DOMAIN q}

(* The host of an absolute URL: the token after "//" *)
HostOf(u) ==
    IF \E i \in 1..(Len(u) - 1) : u[i] = "//" /\ u[i + 1] \in HostTokens
    THEN u[(CHOOSE i \in 1..(Len(u) - 1) : u[i] = "//") + 1]
    ELSE ""

(* C7: no fetch is issued once found_pages has max_pages elements, so the     *)
(* result never has more than max_pages elements; with max_pages = 0 nothing  *)
(* is fetched and the result is empty.                                        *)
C7_CeilingRespected ==
    /\ cpc = "fetch" => Len(found_pages) < max_pages
    /\ \A i \in DOMAIN fetchlog : fetchlog[i].found < max_pages
    /\ Len(found_pages) <= max_pages
    /\ max_pages = 0 => fetchlog = <<>> /\ found_pages = <<>> /\ visited = {}

C7_Witness ==
    /\ cpc = "done"
    /\ max_pages = 2
    /\ Len(found_pages) = 2
    /\ Len(to_visit) > 0

(* C8: every URL queued, visited, fetched or found has the host of the start  *)
(* URL, also when pages hold anchors to other hosts.                          *)
C8_SameHostOnly ==
    \A u \in Range(to_visit) \cup visited \cup Range(found_pages)
               \cup {fetchlog[i].url : i \in DOMAIN fetchlog} :
        HostOf(u) = HostOf(start_url)

C8_Witness ==
    /\ cpc = "done"
    /\ Len(found_pages) = 3
    /\ \E i \in DOMAIN found_pages :
         \E k \in DOMAIN site[found_pages[i]].links :
            HostOf(site[found_pages[i]].links[k]) = "b.test"

(* The site graph: the anchors of an HTML page, resolved, on the start host *)
AnchorsOf(s, u) ==
    IF Answer(s, u).kind # "html" THEN <<>>
    ELSE SelectSeq([i \in DOMAIN Answer(s, u).links |->
                       IF Len(Answer(s, u).links[i]) = 0 THEN <<>>
                       ELSE urljoin(u, Answer(s, u).links[i])],
                   LAMBDA a : Len(a) > 0 /\ HostOf(a) = HostOf(start_url))

RECURSIVE ReachWithin(_, _)
ReachWithin(s, k) ==
    IF k = 0 THEN {start_url}
    ELSE LET R == ReachWithin(s, k - 1)
         IN  R \cup UNION {Range(AnchorsOf(s, u)) : u \in R}

(* Anchor-link distance from the start URL *)
Dist(s, u) == CHOOSE k \in 0..MaxDist :
                 /\ u \in ReachWithin(s, k)
                 /\ k > 0 => u \notin ReachWithin(s, k - 1)

(* q without the elements of seen and without repetitions, order kept *)
RECURSIVE FirstOccurrences(_, _)
FirstOccurrences(q, seen) ==
    IF Len(q) = 0 THEN <<>>
    ELSE IF Head(q) \in seen THEN FirstOccurrences(Tail(q), seen)
    ELSE <<Head(q)>> \o FirstOccurrences(Tail(q), seen \cup {Head(q)})

RECURSIVE AllAnchors(_, _)
AllAnchors(s, level) ==
    IF Len(level) = 0 THEN <<>>
    ELSE AnchorsOf(s, Head(level)) \o AllAnchors(s, Tail(level))

(* Breadth-first order level by level, each level in order of first discovery *)
RECURSIVE LevelOrder(_, _, _)
LevelOrder(s, level, seen) ==
    IF Len(level) = 0 THEN <<>>
    ELSE LET next == FirstOccurrences(AllAnchors(s, level), seen)
         IN  level \o LevelOrder(s, next, seen \cup Range(next))

Take(q, n) == IF Len(q) <= n THEN q ELSE SubSeq(q, 1, n)

(* C9: on a static site the result of crawl_site is determined by the site:   *)
(* it is the HTML pages in breadth-first order, level by level and within a   *)
(* level in order of first discovery, cut at max_pages; so the pages come in  *)
(* nondecreasing anchor distance from the start URL.                          *)
C9_BreadthFirstOrder ==
    cpc = "done" =>
        /\ found_pages =
             Take(SelectSeq(LevelOrder(site, <<start_url>>, {start_url}),
                            LAMBDA u : Answer(site, u).kind = "html"),
                  max_pages)
        /\ \A i, j \in DOMAIN found_pages :
             i < j => Dist(site, found_pages[i]) <= Dist(site, found_pages[j])

C9_Witness ==
    /\ cpc = "done"
    /\ Len(found_pages) = 3
    /\ Dist(site, found_pages[2]) = 1
    /\ Dist(site, found_pages[3]) = 2
    /\ Len(AnchorsOf(site, start_url)) >= 2

----------------------------------------------------------------------------
(* Properties of parse_sitemap, checked under SpecSitemap *)

(* The text of the first <loc> child of an entry, <<>> when it has none *)
FirstLoc(e) ==
    IF \E i \in DOMAIN e.children : e.children[i].name = "loc" /\ e.children[i].ns = e.ns
    THEN e.children[CHOOSE i \in DOMAIN e.children :
                      /\ e.children[i].name = "loc" /\ e.children[i].ns = e.ns
                      /\ \A j \in 1..(i - 1) :
                           ~(e.children[j].name = "loc" /\ e.children[j].ns = e.ns)].text
    ELSE <<>>

(* The non-empty locations of the entries called name below the elements    *)
(* given, in document order; entries are in the namespace ns of the document *)
RECURSIVE EntryLocs(_, _, _)
EntryLocs(elems, ns, name) ==
    IF Len(elems) = 0 THEN <<>>
    ELSE LET e == Head(elems)
         IN  (IF e.name = name /\ e.ns = ns /\ Len(FirstLoc(e)) > 0
              THEN <<FirstLoc(e)>> ELSE <<>>)
             \o EntryLocs(e.children, ns, name)
             \o EntryLocs(Tail(elems), ns, name)

RefsOf(ds, u) ==
    IF u \in DOMAIN ds /\ ds[u].kind = "xml"
    THEN EntryLocs(ds[u].tree.children, ds[u].tree.ns, "sitemap")
    ELSE <<>>

PagesOf(ds, u) ==
    IF u \in DOMAIN ds /\ ds[u].kind = "xml"
    THEN EntryLocs(ds[u].tree.children, ds[u].tree.ns, "url")
    ELSE <<>>

RECURSIVE ReachableFrom(_, _, _)
ReachableFrom(ds, S, k) ==
    IF k = 0 THEN S
    ELSE ReachableFrom(ds, S \cup UNION {Range(RefsOf(ds, u)) : u \in S}, k - 1)

Below(ds, u) ==
    ReachableFrom(ds, Range(RefsOf(ds, u)), Cardinality(SitemapUrls))

(* The documents reachable from u form an acyclic graph and all of them     *)
(* fetch and parse                                                          *)
WellFormedFrom(ds, u) ==
    \A v \in {u} \cup Below(ds, u) :
        /\ v \in DOMAIN ds
        /\ ds[v].kind = "xml"
        /\ v \notin Below(ds, v)

RECURSIVE Flattened(_, _)
RECURSIVE FlattenedAll(_, _)
Flattened(ds, u) == FlattenedAll(ds, RefsOf(ds, u)) \o PagesOf(ds, u)
FlattenedAll(ds, refs) ==
    IF Len(refs) = 0 THEN <<>>
    ELSE Flattened(ds, Head(refs)) \o FlattenedAll(ds, Tail(refs))

(* The number of <url><loc> entries over every branch below u *)
RECURSIVE LeafCount(_, _)
RECURSIVE LeafCountAll(_, _)
LeafCount(ds, u) == Len(PagesOf(ds, u)) + LeafCountAll(ds, RefsOf(ds, u))
LeafCountAll(ds, refs) ==
    IF Len(refs) = 0 THEN 0
    ELSE LeafCount(ds, Head(refs)) + LeafCountAll(ds, Tail(refs))

(* C10: when the sitemap documents form an acyclic tree and all fetch and    *)
(* parse, parse_sitemap returns exactly the <url><loc> entries of all the    *)
(* documents reachable through <sitemap><loc>: as many as the leaf entries,  *)
(* each child's pages in document order, the children in the order listed.   *)
C10_FlattenedInOrder ==
    (spc = "done" /\ WellFormedFrom(docs, S0)) =>
        /\ sm_pages = Flattened(docs, S0)
        /\ Len(sm_pages) = LeafCount(docs, S0)
        /\ Len(RefsOf(docs, S0)) = 2 /\ PagesOf(docs, S0) = <<>> =>
             sm_pages = Flattened(docs, RefsOf(docs, S0)[1])
                          \o Flattened(docs, RefsOf(docs, S0)[2])

C10_Witness ==
    /\ spc = "done"
    /\ WellFormedFrom(docs, S0)
    /\ Len(RefsOf(docs, S0)) = 2
    /\ PagesOf(docs, S0) = <<>>
    /\ Below(docs, S0) = {S1, S2, S3}
    /\ docs[S1].tree.ns = ""
    /\ Len(PagesOf(docs, S1)) = 2
    /\ Len(sm_pages) >= 5

(* C11: parse_sitemap never expands a sitemap location again while it is     *)
(* still expanding it: no location occurs twice among the nested calls, so   *)
(* an index that names itself or an ancestor cannot nest without end.        *)
C11_SeenNotExpandedAgain ==
    \A i, j \in DOMAIN stack :
        i < j => stack[i].sitemap_url # stack[j].sitemap_url

----------------------------------------------------------------------------
(* The locations find_sitemap tries, written out *)
CandidateUrl(i) ==
    CASE i = 1 -> <<"http:", "//", "a.test", "/sitemap.xml">>
      [] i = 2 -> <<"http:", "//", "a.test", "/sitemap_index.xml">>
      [] i = 3 -> <<"http:", "//", "a.test", "/sitemap", "/sitemap.xml">>

RobotsUrl == <<"http:", "//", "a.test", "/robots.txt">>

(* The robots.txt lines that begin with "sitemap:" in any case, each with   *)
(* the trimmed text after its first colon, written out line by line         *)
SitemapLineValue ==
    [l \in {<<"Sitemap:", " ">> \o S0 \o <<" ">>, <<"SITEMAP:">> \o S1,
            <<"sitemap:", " ", " ">> \o S2, <<"Sitemap:", " ">>} |->
        CASE l = <<"Sitemap:", " ">> \o S0 \o <<" ">> -> S0
          [] l = <<"SITEMAP:">> \o S1 -> S1
          [] l = <<"sitemap:", " ", " ">> \o S2 -> S2
          [] l = <<"Sitemap:", " ">> -> <<>>]

Hits == {i \in DOMAIN probes :
            /\ probes[i].kind = "resp"
            /\ probes[i].code = 200
            /\ probes[i].content # <<>>}

SitemapLinesOf(text) == {i \in DOMAIN text : text[i] \in DOMAIN SitemapLineValue}

Least(S) == CHOOSE i \in S : \A j \in S : i <= j

(* C12: find_sitemap requests the three candidates in order and returns the *)
(* first that answers 200 with a non-empty body, requesting nothing after   *)
(* it; any other answer, a network error included, moves on to the next.    *)
(* robots.txt is requested only after all three failed, and then the result *)
(* is the trimmed text after the first colon of the first line that begins, *)
(* in any case, with "sitemap:", and None when there is no such line or     *)
(* robots.txt was not fetched with status 200.                              *)
C12_LocatorOrder ==
    fpc = "done" =>
        IF Hits # {}
        THEN /\ sitemap_url = CandidateUrl(Least(Hits))
             /\ mlog = [i \in 1..Least(Hits) |-> Request(CandidateUrl(i))]
        ELSE /\ mlog = [i \in 1..4 |-> IF i < 4 THEN Request(CandidateUrl(i))
                                       ELSE Request(RobotsUrl)]
             /\ IF robots.kind = "resp" /\ robots.code = 200
                   /\ SitemapLinesOf(robots.text) # {}
                THEN sitemap_url =
                       SitemapLineValue[robots.text[Least(SitemapLinesOf(robots.text))]]
                ELSE sitemap_url = None

C12_Witness ==
    /\ fpc = "done"
    /\ probes[1].kind = "error"
    /\ Hits = {}
    /\ robots.kind = "resp" /\ robots.code = 200
    /\ Len(robots.text) = 2
    /\ robots.text[1] = <<" ", "Sitemap:", " ">> \o S3
    /\ robots.text[2] = <<"SITEMAP:">> \o S1
    /\ sitemap_url = S1

----------------------------------------------------------------------------
IsRequest(e) == e.op \in {"GET", "HEAD"}

CountOf(q, op) == Cardinality({i \in DOMAIN q : q[i].op = op})

(* C17: in every check_links call each outbound request, the page fetch and *)
(* every HEAD, comes right after one delay of that call: the call's history *)
(* alternates delay, request, it holds one request entry for every request  *)
(* the call has sent, and the elapsed time measured for a HEAD is the time  *)
(* the request took, without the delay.                                     *)
C17_DelayBeforeEachRequest ==
    \A t \in Tasks :
        /\ \A i \in DOMAIN trail[t] :
               IF i % 2 = 1 THEN trail[t][i] = Delay ELSE IsRequest(trail[t][i])
        /\ CountOf(trail[t], "GET")
             = (IF tpc[t] = "get_page" \/ fetched[t] # NotFetched THEN 1 ELSE 0)
        /\ CountOf(trail[t], "HEAD")
             = Len(checked[t]) + (IF tpc[t] = "head" THEN 1 ELSE 0)
        /\ \A r \in inflight : r.task = t =>
               /\ trail[t] # <<>>
               /\ trail[t][Len(trail[t])] = [op |-> r.method, url |-> r.url]
        /\ \A i \in DOMAIN checked[t] :
               checked[t][i].outcome.kind = "resp" =>
                   checked[t][i].measured = checked[t][i].outcome.elapsed

C17_Witness ==
    \E t \in Tasks :
        /\ tpc[t] = "done"
        /\ Len(trail[t]) = 6
        /\ Len(checked[t]) = 2
        /\ checked[t][1].outcome.kind = "error"
        /\ checked[t][2].outcome.kind = "resp"
        /\ checked[t][2].measured = 11
        /\ now[t] = 3 * REQUEST_DELAY + 11

----------------------------------------------------------------------------
(* The findings the answers of a call's HEAD requests give, in link order *)
RECURSIVE FindingsFrom(_, _)
FindingsFrom(page_url, log) ==
    IF Len(log) = 0 THEN <<>>
    ELSE LET o == Head(log).outcome
             one == IF o.kind = "error"
                    THEN <<Finding(ERR, page_url, Head(log).link, NoTime)>>
                    ELSE IF o.kind = "resp" /\ (o.code # 200 \/ o.elapsed > SlowThreshold)
                    THEN <<Finding(o.code, page_url, Head(log).link, o.elapsed)>>
                    ELSE <<>>
         IN  one \o FindingsFrom(page_url, Tail(log))

(* The findings of the first n pages, page after page *)
RECURSIVE ReportUpTo(_)
ReportUpTo(n) ==
    IF n = 0 THEN <<>>
    ELSE ReportUpTo(n - 1) \o FindingsFrom(pages[n].url, checked[n])

(* C20: the aggregated list holds the findings in the order of their pages  *)
(* in the page list, whatever order the calls finished in: it is always the *)
(* findings of the pages collected so far, page after page, and at the      *)
(* summary those of all pages, a function of the answers alone.             *)
C20_ReportInPageOrder ==
    /\ all_bad_links = ReportUpTo(collected)
    /\ mpc = "summary" => all_bad_links = ReportUpTo(Len(pages))

C20_Witness ==
    /\ mpc = "summary"
    /\ overtaken
    /\ Len(pages) = 2
    /\ bad_links[1] # <<>>
    /\ bad_links[2] # <<>>
    /\ bad_links[1] # bad_links[2]

----------------------------------------------------------------------------
NoRepeats(q) == \A i, j \in DOMAIN q : i < j => q[i] # q[j]

FetchedUrls == [i \in DOMAIN fetchlog |-> fetchlog[i].url]

CrawlUrls == visited \cup Range(to_visit) \cup visited' \cup Range(to_visit')

(* A URL is queued only when it was neither queued nor visited, is visited  *)
(* only from the queue, and stays visited                                   *)
UrlLifecycle ==
    \A u \in CrawlUrls :
        /\ u \in visited => u \in visited' /\ u \notin Range(to_visit')
        /\ u \in Range(to_visit') /\ u \notin Range(to_visit) => u \notin visited
        /\ u \in visited' /\ u \notin visited => u \in Range(to_visit)

(* C14: in crawl_site every URL goes from unseen to queued to visited and   *)
(* is queued only while unseen; to_visit holds no URL twice and none that   *)
(* is in visited; every URL is fetched at most once, and the URL at the     *)
(* head of to_visit is never in visited, so the skip branch is not taken.   *)
C14_QueueDiscipline ==
    /\ [](/\ NoRepeats(to_visit)
          /\ Range(to_visit) \cap visited = {}
          /\ NoRepeats(FetchedUrls)
          /\ Range(FetchedUrls) = visited
          /\ Len(to_visit) > 0 => Head(to_visit) \notin visited)
    /\ [][UrlLifecycle]_vars

C14_Witness ==
    /\ cpc = "done"
    /\ Cardinality(visited) = 4
    /\ \E u \in visited : Occurrences(Answer(site, u).links, <<"/q">>) = 2
    /\ Answer(site, Root \o <<"/q">>).kind = "html"
    /\ Contains(Answer(site, Root \o <<"/q">>).links, Root)

(* The fetches that have been answered *)
Answered == IF cpc = "fetch" THEN Front(FetchedUrls) ELSE FetchedUrls

IsGoodPage(u) == Answer(site, u).kind = "html"

(* C15: a URL taken from to_visit is recorded as found exactly when its     *)
(* fetch answered 200 with an HTML content type.  After any other answer    *)
(* (another status, another content type, a network error) the URL is in    *)
(* visited, found_pages and to_visit are left as they were, and the loop    *)
(* goes on.                                                                 *)
C15_FoundIffHtml ==
    /\ [](/\ found_pages = SelectSeq(Answered, IsGoodPage)
          /\ Range(FetchedUrls) \subseteq visited
          /\ cpc = "loop" => ENABLED (CrawlPop \/ CrawlReturn))
    /\ [][cpc = "fetch" /\ ~IsGoodPage(url) =>
            /\ found_pages' = found_pages
            /\ to_visit' = to_visit
            /\ url \in visited'
            /\ cpc' = "loop"]_vars

C15_Witness ==
    /\ cpc = "done"
    /\ \E i, j \in DOMAIN fetchlog :
           /\ i < j
           /\ Answer(site, fetchlog[i].url).kind = "non200"
           /\ Answer(site, fetchlog[i].url).links # <<>>
           /\ Answer(site, fetchlog[j].url).kind = "html"
           /\ fetchlog[j].url \in Range(found_pages)
           /\ fetchlog[i].url \in visited
           /\ fetchlog[i].url \notin Range(found_pages)
    /\ Root \o <<"/d">> \notin visited

----------------------------------------------------------------------------
(* The same-host URLs reachable from the start URL through the anchors of   *)
(* pages that answered 200 with HTML                                        *)
Reachable == ReachWithin(site, MaxDist)

(* Every URL an anchor of the site can name *)
SiteUrls ==
    {Root} \cup {urljoin(b, a.links[i]) : <<b, a, i>> \in
                    {x \in CrawlPages \X PageAnswers \X (1..4) :
                        x[3] <= Len(x[2].links)}}

(* What is left to do: the URLs not yet visited, and the steps the loop has *)
(* to take before its next pop                                              *)
StepsLeft ==
    2 * Cardinality(SiteUrls \ visited)
      + (CASE cpc = "fetch" -> 2 [] cpc = "loop" -> 1 [] OTHER -> 0)

(* Every step of crawl_site brings it nearer to its return, and until it    *)
(* has returned it is either waiting for an answer, which comes, or at the  *)
(* loop test, where it pops or returns                                      *)
CrawlTerminates ==
    /\ [](visited \subseteq SiteUrls)
    /\ [][StepsLeft' < StepsLeft]_vars
    /\ [](cpc # "done" =>
            \/ cpc = "fetch"
            \/ cpc = "loop" /\ ENABLED (CrawlPop \/ CrawlReturn))

(* crawl_site terminates on every finite site graph, and when it stops with *)
(* fewer than max_pages pages the found pages are exactly the reachable     *)
(* same-host URLs, whatever they answered.                                  *)
C19_FoundAllReachable ==
    /\ CrawlTerminates
    /\ [](cpc = "done" /\ Len(found_pages) < max_pages =>
            Range(found_pages) = Reachable)

(* C19: crawl_site terminates on every finite site graph for every          *)
(* max_pages >= 0, cycles and self-links included: each step lowers the     *)
(* count of what is left to do and the loop is never stuck before its       *)
(* return.  When it stops with fewer than max_pages pages the found pages   *)
(* are exactly the reachable same-host URLs that themselves answered 200    *)
(* with HTML.                                                               *)
C19_TerminatesWithReachableHtml ==
    /\ CrawlTerminates
    /\ [](cpc = "done" /\ Len(found_pages) < max_pages =>
            Range(found_pages) = {u \in Reachable : IsGoodPage(u)})

C19_Witness ==
    /\ cpc = "done"
    /\ max_pages = 3
    /\ found_pages = <<Root, Root \o <<"/p">> >>
    /\ Root \o <<"/p">> \in Range(AnchorsOf(site, Root \o <<"/p">>))
    /\ Root \in Range(AnchorsOf(site, Root \o <<"/p">>))
    /\ Root \o <<"/q">> \in Reachable
    /\ Answer(site, Root \o <<"/q">>).kind = "non200"

----------------------------------------------------------------------------
(* No sitemap document reachable from u is below itself *)
AcyclicFrom(ds, u) == \A v \in {u} \cup Below(ds, u) : v \notin Below(ds, v)

FailsAt(ds, u) == Document(ds, u).kind = "fail"

(* The innermost call is at a document that fails to fetch or parse *)
FailingNow ==
    /\ spc = "run"
    /\ Top.phase = "fetch"
    /\ FailsAt(docs, Top.sitemap_url)

(* C16: a sitemap document that fails to fetch or parse gives the empty     *)
(* sequence for that document only.  The failing call returns to its caller *)
(* with the caller's list as it was and the resolution goes on; the result  *)
(* is the flattening in which a failing document counts for nothing, so the *)
(* pages of the branches listed before and after it are all returned.       *)
C16_FailureIsLocal ==
    /\ [][FailingNow /\ Len(stack) > 1 =>
            /\ spc' = "run"
            /\ Len(stack') = Len(stack) - 1
            /\ stack'[Len(stack')].urls = stack[Len(stack) - 1].urls
            /\ stack'[Len(stack')].phase = "walk"]_vars
    /\ [](spc = "done" /\ AcyclicFrom(docs, S0) =>
            /\ sm_pages = Flattened(docs, S0)
            /\ (/\ RefsOf(docs, S0) = <<S1, S2, S3>>
                /\ PagesOf(docs, S0) = <<>>
                /\ FailsAt(docs, S2))
                 => sm_pages = Flattened(docs, S1) \o Flattened(docs, S3))

C16_Witness ==
    /\ spc = "done"
    /\ RefsOf(docs, S0) = <<S1, S2, S3>>
    /\ FailsAt(docs, S2)
    /\ ~FailsAt(docs, S1) /\ ~FailsAt(docs, S3)
    /\ Len(PagesOf(docs, S1)) = 2
    /\ RefsOf(docs, S3) = <<S1, S2>>
    /\ sm_pages = PagesOf(docs, S1) \o PagesOf(docs, S1)

----------------------------------------------------------------------------
DiscoveryDone == fpc = "done" /\ (cpc = "done" \/ spc = "done")

(* C13: crawl_site runs only when find_sitemap returned nothing, so          *)
(* parse_sitemap and crawl_site never both run and a sitemap that resolves   *)
(* to no pages starts no crawl; and no check_links call starts, nor is a     *)
(* page list there, before discovery has finished.                           *)
C13_DiscoveryBeforeChecks ==
    /\ cpc # "idle" => fpc = "done" /\ sitemap_url \in {None, <<>>} /\ spc = "idle"
    /\ spc # "idle" => fpc = "done" /\ sitemap_url \notin {None, <<>>} /\ cpc = "idle"
    /\ mpc # "discover" => DiscoveryDone
    /\ \A t \in Tasks : DiscoveryDone /\ cpc # "loop" /\ cpc # "fetch" /\ spc # "run"
    /\ ~DiscoveryDone => pages = <<>> /\ inflight = {}

C13_Witness ==
    /\ mpc = "summary"
    /\ sitemap_url = S0
    /\ spc = "done"
    /\ sm_pages = <<>>
    /\ pages = <<>>
    /\ cpc = "idle"
    /\ Answer(site, Root).kind = "html"

(* C18: every outbound request of a run comes right after one politeness    *)
(* delay of the thread that sends it: those of find_sitemap, parse_sitemap  *)
(* and crawl_site on the main thread, and those of every check_links call.  *)
C18_EveryRequestDelayed ==
    /\ \A i \in DOMAIN mlog :
           IsRequest(mlog[i]) => i > 1 /\ mlog[i - 1] = Delay
    /\ \A t \in Tasks : \A i \in DOMAIN trail[t] :
           IsRequest(trail[t][i]) => i > 1 /\ trail[t][i - 1] = Delay

====
